---- MODULE Spec2Model ----
(***************************************************************************)
(* Model of the PCA9685 PWM board controller, src/src/i2cpwm_controller.cpp *)
(*                                                                         *)
(* The controller is single threaded: ROS runs one service or subscriber   *)
(* callback at a time, so every callback is one atomic action.  The I2C    *)
(* bus is the environment: every bus transaction (the I2C_SLAVE ioctl, a   *)
(* register write, a register read) may fail, and a register read returns  *)
(* whatever the addressed chip holds.  The transactions of the callback    *)
(* that ran last are kept, in order, in log.                                *)
(***************************************************************************)
EXTENDS Integers, Sequences, FiniteSets

(***************************************************************************)
(* Bounds of the model.                                                    *)
(***************************************************************************)
\* boards 1..MaxBoard stand for the 62 boards of _pwm_boards[62]
MaxBoard == 2
\* at most MaxFail bus transactions fail within one callback
MaxFail == 1
\* a ServoArray message holds 1..MaxMsgLen servos
MaxMsgLen == 1
\* a ServosConfig request holds 1..MaxCfgLen entries
MaxCfgLen == 3

(***************************************************************************)
(* Program constants: enum pwm_regs and _BASE_ADDR.                        *)
(***************************************************************************)
BASE_ADDR == 64
MODE1 == 0
MODE2 == 1
PRESCALE == 254
CHANNEL_ON_L == 6
CHANNEL_ON_H == 7
CHANNEL_OFF_L == 8
CHANNEL_OFF_H == 9
ALL_CHANNELS_ON_L == 250
ALL_CHANNELS_ON_H == 251
ALL_CHANNELS_OFF_L == 252
ALL_CHANNELS_OFF_H == 253
RESTART == 128
SLEEP == 16
ALLCALL == 1
OUTDRV == 4
\* main: _set_pwm_frequency (50)
DefaultFrequency == 50
\* set_pwm_frequency: 12..1024 is the accepted range
MinFrequency == 12
MaxFrequency == 1024
\* _set_pwm_interval: servo numbers are 1..16
MaxServo == 16
\* servos_absolute: PWM values are 0..4096
MaxPulse == 4096
\* _set_pwm_interval_proportional: proportion values are -1000..1000
MaxProportion == 1000
\* enum drive_modes
MODE_UNDEFINED == 0
MODE_ACKERMAN == 1
MODE_DIFFERENTIAL == 2
MODE_MECANUM == 3
MODE_INVALID == 4
\* enum drive_mode_positions
POSITION_UNDEFINED == 0
POSITION_LEFTFRONT == 1
POSITION_RIGHTFRONT == 2
POSITION_LEFTREAR == 3
POSITION_RIGHTREAR == 4
POSITION_INVALID == 5

VARIABLES
    pc,             \* "boot": main before its start-up calls; "spin": waiting in
                    \* ros::spin(); "done": a callback (or the start-up) has just run
    _active_board,  \* the board the callbacks act on
    _pwm_boards,    \* -1 or 1 per board, indexed 1..MaxBoard here (board-1 in the code)
    _pwm_frequency, \* the frequency last handed to _set_pwm_frequency
    bus_slave,      \* slave address bound to _controller_io_handle by I2C_SLAVE, 0 = none
    hw_prescale,    \* PRESCALE register of the chip of each board, 0 = never written
    wake_count,     \* how many times the wake sequence has run for each board
    _servo_configs, \* center, range, direction and mode_pos of each channel of each
                    \* board, indexed [1..MaxBoard][1..16] here (board-1, servo-1 in
                    \* the code)
    _active_drive,  \* mode and scale of the drive; scale 1 stands for 1.0
    log,            \* while pc = "done": the bus transactions and waits of the
                    \* callback that has just run, in order
    rosout,         \* while pc = "done": the ROS_ERROR and ROS_INFO reports of
                    \* servos_drive and _set_pwm_interval_proportional in that
                    \* callback, in order
    lastOp          \* while pc = "done": that callback, its argument and the state
                    \* it started from

vars ==
    <<pc, _active_board, _pwm_boards, _pwm_frequency, bus_slave, hw_prescale,
      wake_count, _servo_configs, _active_drive, log, rosout, lastOp>>

Boards == 1..MaxBoard

Servos == 1..MaxServo

\* a channel as _init leaves it
Unconfigured == [center |-> -1, range |-> -1, direction |-> 1, mode_pos |-> -1]

Addr(board) == BASE_ADDR + (board - 1)

\* the board whose chip answers at a slave address, 0 when there is none
BoardAt(addr) == IF addr - BASE_ADDR + 1 \in Boards THEN addr - BASE_ADDR + 1 ELSE 0

(***************************************************************************)
(* Bit operations on a byte; bit is a power of two.                        *)
(***************************************************************************)
HasBit(v, bit) == (v \div bit) % 2 = 1
BitSet(v, bit) == IF HasBit(v, bit) THEN v ELSE v + bit
BitClear(v, bit) == IF HasBit(v, bit) THEN v - bit ELSE v

Last(s) == s[Len(s)]

RECURSIVE SubsetsUpTo(_, _)
SubsetsUpTo(S, k) ==
    IF k = 0 THEN {{}}
    ELSE LET P == SubsetsUpTo(S, k - 1)
         IN  P \cup {p \cup {x} : p \in P, x \in S}

(***************************************************************************)
(* The machine state threaded through one callback, and the environment e  *)
(* of that callback: e.fail is the set of positions in the callback's      *)
(* transaction sequence that fail, e.mode the byte a successful read of    *)
(* MODE1 returns.                                                          *)
(***************************************************************************)
Cur ==
    [_active_board |-> _active_board, _pwm_boards |-> _pwm_boards,
     _pwm_frequency |-> _pwm_frequency, bus_slave |-> bus_slave,
     hw_prescale |-> hw_prescale, wake_count |-> wake_count,
     _servo_configs |-> _servo_configs, _active_drive |-> _active_drive,
     log |-> <<>>, rosout |-> <<>>]

\* MODE1 as the chip returns it: running, asleep as after power-on, or put to
\* sleep with a restart pending
ModeVals == {ALLCALL, SLEEP + ALLCALL, RESTART + SLEEP + ALLCALL}

NoFail == [fail |-> {}, mode |-> ALLCALL]

Fails(m, e) == (Len(m.log) + 1) \in e.fail

Entry(op, reg, val, ok, m) ==
    [op |-> op, reg |-> reg, val |-> val, ok |-> ok,
     slave |-> m.bus_slave, board |-> m._active_board]

\* ioctl (_controller_io_handle, I2C_SLAVE, addr): binds the handle to addr
ioctl_I2C_SLAVE(m, e, addr) ==
    LET ok == ~Fails(m, e)
    IN  [m EXCEPT !.log = Append(@, Entry("ioctl", 0, addr, ok, m)),
                  !.bus_slave = IF ok THEN addr ELSE @]

\* i2c_smbus_write_byte_data: the value is a __u8; it reaches the chip at the
\* bound slave address
i2c_smbus_write_byte_data(m, e, reg, val) ==
    LET ok == ~Fails(m, e)
        b == BoardAt(m.bus_slave)
    IN  [m EXCEPT !.log = Append(@, Entry("write", reg, val % 256, ok, m)),
                  !.hw_prescale = IF ok /\ reg = PRESCALE /\ b # 0
                                  THEN [@ EXCEPT ![b] = val % 256] ELSE @]

\* i2c_smbus_read_byte_data stored into a char: -1 (0xFF) on failure
i2c_smbus_read_byte_data(m, e, reg) ==
    LET ok == ~Fails(m, e)
    IN  [m EXCEPT !.log = Append(@, Entry("read", reg, IF ok THEN e.mode ELSE 255, ok, m))]

nanosleep(m, ms) == [m EXCEPT !.log = Append(@, Entry("wait", 0, ms, TRUE, m))]

(***************************************************************************)
(* Pulse writes on the active board                                        *)
(***************************************************************************)
_set_pwm_interval_all(m, e, start, end) ==
    IF m._active_board < 1 \/ m._active_board > MaxBoard THEN m
    ELSE LET m1 == i2c_smbus_write_byte_data(m, e, ALL_CHANNELS_ON_L, start % 256)
             m2 == i2c_smbus_write_byte_data(m1, e, ALL_CHANNELS_ON_H, start \div 256)
             m3 == i2c_smbus_write_byte_data(m2, e, ALL_CHANNELS_OFF_L, end % 256)
         IN  i2c_smbus_write_byte_data(m3, e, ALL_CHANNELS_OFF_H, end \div 256)

\* a variant that writes the registers of whatever servo number it is given
_set_pwm_interval_any_servo(m, e, servo, start, end) ==
    IF m._active_board < 1 \/ m._active_board > MaxBoard THEN m
    ELSE LET channel == servo - 1
             m1 == i2c_smbus_write_byte_data(m, e, CHANNEL_ON_L + 4 * channel, start % 256)
             m2 == i2c_smbus_write_byte_data(m1, e, CHANNEL_ON_H + 4 * channel, start \div 256)
             m3 == i2c_smbus_write_byte_data(m2, e, CHANNEL_OFF_L + 4 * channel, end % 256)
         IN  i2c_smbus_write_byte_data(m3, e, CHANNEL_OFF_H + 4 * channel, end \div 256)

_set_pwm_interval(m, e, servo, start, end) ==
    IF m._active_board < 1 \/ m._active_board > MaxBoard THEN m
    ELSE IF servo < 1 \/ servo > MaxServo THEN m
    ELSE LET channel == servo - 1
             m1 == i2c_smbus_write_byte_data(m, e, CHANNEL_ON_L + 4 * channel, start % 256)
             m2 == i2c_smbus_write_byte_data(m1, e, CHANNEL_ON_H + 4 * channel, start \div 256)
             m3 == i2c_smbus_write_byte_data(m2, e, CHANNEL_OFF_L + 4 * channel, end % 256)
         IN  i2c_smbus_write_byte_data(m3, e, CHANNEL_OFF_H + 4 * channel, end \div 256)

(***************************************************************************)
(* _set_pwm_frequency: floor (25000000.0 / 4096.0 / freq - 1.0 + 0.5).     *)
(* In integers: floor ((50000000 - 4096 freq) / (8192 freq)); the float    *)
(* evaluation of the code gives the same integer for every freq of 1..1999.*)
(***************************************************************************)
Prescale(freq) == (50000000 - 4096 * freq) \div (8192 * freq)

\* the bus sequence of _set_pwm_frequency, from its first nanosleep on
program_prescale(m, e, prescale) ==
    LET m1 == nanosleep(m, 1000)
        m2 == i2c_smbus_read_byte_data(m1, e, MODE1)
        oldmode == Last(m2.log).val
        newmode == BitSet(oldmode % 128, SLEEP)
        m3 == i2c_smbus_write_byte_data(m2, e, MODE1, newmode)
        m4 == i2c_smbus_write_byte_data(m3, e, PRESCALE, prescale)
        m5 == i2c_smbus_write_byte_data(m4, e, MODE1, oldmode)
        m6 == nanosleep(m5, 5)
    IN  i2c_smbus_write_byte_data(m6, e, MODE1, BitSet(oldmode, RESTART))

\* a variant that keeps the old frequency when a register write failed
_set_pwm_frequency_stored_on_success(m, e, freq) ==
    LET r == program_prescale([m EXCEPT !._pwm_frequency = freq], e, Prescale(freq))
    IN  IF \E i \in 1..Len(r.log) : r.log[i].op = "write" /\ ~r.log[i].ok
        THEN [r EXCEPT !._pwm_frequency = m._pwm_frequency]
        ELSE r

_set_pwm_frequency(m, e, freq) ==
    program_prescale([m EXCEPT !._pwm_frequency = freq], e, Prescale(freq))

(***************************************************************************)
(* _set_active_board.  wake_sequence is the body of its                    *)
(* if (_pwm_boards[board]<0) branch, run once the ioctl has succeeded;     *)
(* wake_registers is the bus sequence of that branch.                      *)
(***************************************************************************)
wake_registers(m, e) ==
    LET m2 == i2c_smbus_write_byte_data(m, e, MODE2, OUTDRV)
        m3 == i2c_smbus_write_byte_data(m2, e, MODE1, ALLCALL)
        m4 == nanosleep(m3, 5)
        m5 == i2c_smbus_read_byte_data(m4, e, MODE1)
        mode1res == BitClear(Last(m5.log).val, SLEEP)
        m6 == i2c_smbus_write_byte_data(m5, e, MODE1, mode1res)
        m7 == nanosleep(m6, 5)
    IN  _set_pwm_interval_all(m7, e, 0, 0)

\* a variant that wakes the board without marking it
wake_sequence_unmarked(m, e, board) ==
    wake_registers([m EXCEPT !.wake_count[board] = @ + 1], e)

wake_sequence(m, e, board) ==
    wake_registers([m EXCEPT !._pwm_boards[board] = 1, !.wake_count[board] = @ + 1], e)

\* the body of if (_active_board != board)
select_board(m, e, board) ==
    LET m1 == [m EXCEPT !._active_board = board]
        m2 == ioctl_I2C_SLAVE(m1, e, BASE_ADDR + (board - 1))
    IN  IF ~Last(m2.log).ok THEN m2
        ELSE IF m2._pwm_boards[board] < 0 THEN wake_sequence(m2, e, board)
        ELSE m2

\* a variant that addresses the board even when it is the active one
_set_active_board_always(m, e, board) ==
    IF board < 1 \/ board > MaxBoard THEN m
    ELSE select_board(m, e, board)

_set_active_board(m, e, board) ==
    IF board < 1 \/ board > MaxBoard THEN m
    ELSE IF m._active_board # board THEN select_board(m, e, board)
    ELSE m

(***************************************************************************)
(* The bodies of the callbacks and of main's start-up, as functions of the *)
(* machine state.                                                          *)
(***************************************************************************)
\* main: _set_active_board (1); _set_pwm_frequency (50);
main_call(m, e) == _set_pwm_frequency(_set_active_board(m, e, 1), e, DefaultFrequency)

set_pwm_frequency_call(m, e, value) ==
    LET freq == IF value < MinFrequency \/ value > MaxFrequency
                THEN DefaultFrequency ELSE value
    IN  _set_pwm_frequency(m, e, freq)

set_pwm_active_board_call(m, e, value) ==
    LET board == IF value < 1 \/ value > MaxBoard THEN 1 ELSE value
        m1 == _set_active_board(m, e, board)
    IN  _set_pwm_frequency(m1, e, m1._pwm_frequency)

RECURSIVE stop_servos_loop(_, _, _)
stop_servos_loop(m, e, i) ==
    IF i > MaxBoard THEN m
    ELSE IF m._pwm_boards[i] > 0
         THEN stop_servos_loop(_set_pwm_interval_all(_set_active_board(m, e, i), e, 0, 0), e, i + 1)
         ELSE stop_servos_loop(m, e, i + 1)

\* a variant that leaves the last board it visited active
stop_servos_call_unrestored(m, e) == stop_servos_loop(m, e, 1)

stop_servos_call(m, e) ==
    LET save_active == m._active_board
    IN  [stop_servos_loop(m, e, 1) EXCEPT !._active_board = save_active]

RECURSIVE servos_absolute_call(_, _, _)
servos_absolute_call(m, e, servos) ==
    IF servos = <<>> THEN m
    ELSE LET sp == Head(servos)
         IN  IF sp.servo < 1 /\ sp.servo > MaxServo
             THEN servos_absolute_call(m, e, Tail(servos))
             ELSE IF sp.value < 0 \/ sp.value > MaxPulse
             THEN servos_absolute_call(m, e, Tail(servos))
             ELSE servos_absolute_call(_set_pwm_interval(m, e, sp.servo, 0, sp.value),
                                       e, Tail(servos))

(***************************************************************************)
(* Channel calibration and proportional pulses.                            *)
(***************************************************************************)
\* a / b of two ints, b > 0: the quotient is truncated toward zero
TruncDiv(a, b) == IF a >= 0 THEN a \div b ELSE -((-a) \div b)

\* the checks of config_servos on one entry of the request; the third one
\* tests the center a second time
servo_config_rejected(sc) ==
    \/ sc.servo < 1 \/ sc.servo > MaxServo
    \/ sc.center < 0 \/ sc.center > MaxPulse
    \/ sc.center < 0 \/ sc.center > MaxPulse
    \/ sc.center - TruncDiv(sc.range, 2) < 0
    \/ TruncDiv(sc.range, 2) + sc.center > MaxPulse

\* a variant that leaves the drive position of the channel alone
store_servo_config_keeping_position(m, sc) ==
    [m EXCEPT !._servo_configs[m._active_board][sc.servo] =
        [center |-> sc.center, range |-> sc.range, direction |-> sc.direction,
         mode_pos |-> @.mode_pos]]

store_servo_config(m, sc) ==
    [m EXCEPT !._servo_configs[m._active_board][sc.servo] =
        [center |-> sc.center, range |-> sc.range, direction |-> sc.direction,
         mode_pos |-> POSITION_UNDEFINED]]

\* a variant that gives the request up at its first rejected entry
RECURSIVE config_servos_loop_until_rejected(_, _)
config_servos_loop_until_rejected(m, servos) ==
    IF servos = <<>> THEN m
    ELSE IF servo_config_rejected(Head(servos)) THEN m
    ELSE config_servos_loop_until_rejected(store_servo_config(m, Head(servos)), Tail(servos))

RECURSIVE config_servos_loop(_, _)
config_servos_loop(m, servos) ==
    IF servos = <<>> THEN m
    ELSE IF servo_config_rejected(Head(servos))
         THEN config_servos_loop(m, Tail(servos))
         ELSE config_servos_loop(store_servo_config(m, Head(servos)), Tail(servos))

config_servos_call(m, servos) ==
    IF m._active_board < 1 \/ m._active_board > MaxBoard THEN m
    ELSE config_servos_loop(m, servos)

\* a variant whose division rounds toward minus infinity
proportional_pos_floored(configp, value) ==
    configp.direction * ((TruncDiv(configp.range, 2) * value) \div 1000) + configp.center

\* int pos = (direction * (((range / 2) * value) / 1000)) + center
proportional_pos(configp, value) ==
    configp.direction * TruncDiv(TruncDiv(configp.range, 2) * value, 1000) + configp.center

\* ROS_ERROR (...) and ROS_INFO (...): what names the format string, args are
\* the values printed
ROS_ERROR(m, what, args) ==
    [m EXCEPT !.rosout = Append(@, [level |-> "error", what |-> what, args |-> args])]

ROS_INFO(m, what, args) ==
    [m EXCEPT !.rosout = Append(@, [level |-> "info", what |-> what, args |-> args])]

\* a variant that writes whatever position it computes
_set_pwm_interval_proportional_unchecked(m, e, servo, value) ==
    IF servo < 1 /\ servo > MaxServo THEN ROS_ERROR(m, "Invalid servo number", <<servo>>)
    ELSE IF value < -MaxProportion \/ value > MaxProportion
         THEN ROS_ERROR(m, "Invalid proportion value", <<value>>)
    ELSE IF servo < 1 \/ servo > MaxServo THEN ROS_ERROR(m, "stray", <<servo>>)
    ELSE LET pos == proportional_pos(m._servo_configs[m._active_board][servo], value)
         IN  ROS_INFO(_set_pwm_interval(m, e, servo, 0, pos), "servo[] =", <<servo, value, pos>>)

\* For a servo outside 1..16 the first test never holds and configp points
\* outside the channels of the active board; whatever the tests on *configp
\* give, the only effect left is _set_pwm_interval, which refuses the servo.
\* One of the later ROS_ERRORs is made, which one depends on what configp
\* points at: it is recorded as "stray".
_set_pwm_interval_proportional(m, e, servo, value) ==
    IF servo < 1 /\ servo > MaxServo THEN ROS_ERROR(m, "Invalid servo number", <<servo>>)
    ELSE IF value < -MaxProportion \/ value > MaxProportion
         THEN ROS_ERROR(m, "Invalid proportion value", <<value>>)
    ELSE IF servo < 1 \/ servo > MaxServo THEN ROS_ERROR(m, "stray", <<servo>>)
    ELSE LET configp == m._servo_configs[m._active_board][servo]
             pos == proportional_pos(configp, value)
         IN  IF configp.center < 0 \/ configp.range < 0
             THEN ROS_ERROR(m, "Missing servo configuration", <<servo>>)
             ELSE IF pos < 0 \/ pos > MaxPulse
             THEN ROS_ERROR(m, "Invalid computed position", <<servo, value, pos>>)
             ELSE ROS_INFO(_set_pwm_interval(m, e, servo, 0, pos),
                           "servo[] =", <<servo, value, pos>>)

RECURSIVE servos_proportional_call(_, _, _)
servos_proportional_call(m, e, servos) ==
    IF servos = <<>> THEN m
    ELSE servos_proportional_call(
             _set_pwm_interval_proportional(m, e, Head(servos).servo, Head(servos).value),
             e, Tail(servos))

(***************************************************************************)
(* The drive: config_drive_mode and servos_drive.                          *)
(***************************************************************************)
\* the strcmp chain of config_drive_mode
drive_mode_of(name) ==
    CASE name = "ackerman" -> MODE_ACKERMAN
      [] name = "differential" -> MODE_DIFFERENTIAL
      [] name = "mecanum" -> MODE_MECANUM
      [] OTHER -> MODE_INVALID

\* the body of the loop of config_drive_mode for one entry of req.servos
assign_drive_position(m, sp) ==
    IF m._active_board < 1 \/ m._active_board > MaxBoard THEN m
    ELSE IF sp.servo < 1 \/ sp.servo > MaxServo THEN m
    ELSE IF sp.value < POSITION_UNDEFINED \/ sp.value > POSITION_LEFTREAR THEN m
    ELSE [m EXCEPT !._servo_configs[m._active_board][sp.servo].mode_pos = sp.value]

RECURSIVE config_drive_positions(_, _)
config_drive_positions(m, servos) ==
    IF servos = <<>> THEN m
    ELSE config_drive_positions(assign_drive_position(m, Head(servos)), Tail(servos))

\* the mode is assigned once before the scale is examined and again after
config_drive_mode_call(m, req) ==
    LET mode == drive_mode_of(req.mode)
    IN  IF mode = MODE_INVALID THEN m
        ELSE LET m1 == [m EXCEPT !._active_drive.mode = mode]
             IN  IF req.scale <= 0 THEN m1
                 ELSE config_drive_positions(
                          [m1 EXCEPT !._active_drive = [mode |-> mode, scale |-> req.scale]],
                          req.servos)

_abs(v1) == IF v1 < 0 THEN 0 - v1 ELSE v1

_absmax(v1, v2) == IF _abs(v1) < _abs(v2) THEN v2 ELSE v1

\* a double of a Twist message is held as its number of thousandths; this is
\* its conversion to the int parameter of _abs
double_to_int(d) == TruncDiv(d, 1000)


\* a variant that is 1000 at 0 and 0 from there on
_smoothing_descending(speed) == IF TruncDiv(1000 - speed, 1000) % 2 = 0 THEN 0 ELSE 1000

\* ((cos (_PI * ((1000 - speed) / 1000)) + 1) / 2) * 1000 converted to int: the
\* quotient is an int, so the cosine is taken of a whole multiple of pi and
\* the result is 1000 for an even multiple and 0 for an odd one
_smoothing(speed) == IF TruncDiv(1000 - speed, 1000) % 2 = 0 THEN 1000 ELSE 0

\* a variant that smooths linear y for the forward magnitude
twist_terms_crossed(msg) ==
    [dir_x |-> IF msg.linear.x > 0 THEN 1 ELSE -1,
     dir_y |-> IF msg.linear.y > 0 THEN 1 ELSE -1,
     dir_r |-> IF msg.angular.z > 0 THEN 1 ELSE -1,
     temp_x |-> _smoothing(_abs(double_to_int(msg.linear.y))),
     temp_y |-> _smoothing(_abs(double_to_int(msg.linear.x))),
     temp_r |-> TruncDiv(_smoothing(_abs(double_to_int(msg.angular.z))), 2)]

\* the signs and the smoothed magnitudes servos_drive takes from the message
twist_terms(msg) ==
    [dir_x |-> IF msg.linear.x > 0 THEN 1 ELSE -1,
     dir_y |-> IF msg.linear.y > 0 THEN 1 ELSE -1,
     dir_r |-> IF msg.angular.z > 0 THEN 1 ELSE -1,
     temp_x |-> _smoothing(_abs(double_to_int(msg.linear.x))),
     temp_y |-> _smoothing(_abs(double_to_int(msg.linear.x))),
     temp_r |-> TruncDiv(_smoothing(_abs(double_to_int(msg.angular.z))), 2)]

\* speed[0..3] of the mecanum case before the four calls of _absmax
mecanum_speeds(msg) ==
    LET t == twist_terms(msg)
    IN  [i \in 0..3 |->
            IF i = 0 THEN t.temp_x * t.dir_x - t.temp_y * t.dir_y
            ELSE IF i = 1 THEN (t.temp_x - t.temp_r) * t.dir_x + t.temp_y * t.dir_y
            ELSE IF i = 2 THEN t.temp_x * t.dir_x + t.temp_y * t.dir_y
            ELSE (t.temp_x - t.temp_r) * t.dir_x - t.temp_y * t.dir_y]

\* speed[0..3] after the switch of servos_drive; junk[i] is what the
\* uninitialized speed[i] holds when the mode does not assign it
drive_speeds(mode, msg, junk) ==
    LET t == twist_terms(msg)
    IN  CASE mode = MODE_ACKERMAN ->
               [i \in 0..3 |-> IF i = 0 THEN t.temp_x * t.dir_x ELSE junk[i]]
          [] mode = MODE_DIFFERENTIAL ->
               [i \in 0..3 |->
                   IF i = 0 THEN IF t.dir_r < 0 THEN (t.temp_x - t.temp_r) * t.dir_x
                                 ELSE t.temp_x * t.dir_x
                   ELSE IF i = 1 THEN (t.temp_x - t.temp_r) * t.dir_x
                   ELSE junk[i]]
          [] mode = MODE_MECANUM ->
               [i \in 0..3 |-> _absmax(mecanum_speeds(msg)[i], 1000)]
          [] OTHER -> junk

\* the loop of servos_drive over the channels i of the active board
RECURSIVE servos_drive_loop(_, _, _, _)
servos_drive_loop(m, e, speed, i) ==
    IF i >= MaxServo THEN m
    ELSE LET mode_pos == m._servo_configs[m._active_board][i + 1].mode_pos
             m1 == IF mode_pos = POSITION_LEFTFRONT
                   THEN _set_pwm_interval_proportional(m, e, i + 1, speed[0])
                   ELSE IF mode_pos = POSITION_RIGHTFRONT
                   THEN _set_pwm_interval_proportional(m, e, i + 1, speed[1])
                   ELSE IF mode_pos = POSITION_LEFTREAR
                   THEN _set_pwm_interval_proportional(m, e, i + 1, speed[3])
                   ELSE IF mode_pos = POSITION_RIGHTREAR
                   THEN _set_pwm_interval_proportional(m, e, i + 1, speed[2])
                   ELSE m
         IN  servos_drive_loop(m1, e, speed, i + 1)

\* the ROS_INFO that ends each case of the switch of servos_drive
report_speeds(m, speed) ==
    CASE m._active_drive.mode = MODE_ACKERMAN ->
           ROS_INFO(m, "ackerman drive mode speed", <<speed[0]>>)
      [] m._active_drive.mode = MODE_DIFFERENTIAL ->
           ROS_INFO(m, "differential drive mode speed left right", <<speed[0], speed[1]>>)
      [] m._active_drive.mode = MODE_MECANUM ->
           ROS_INFO(m, "mecanum drive mode speed leftfront rightfront leftrear rightreer",
                    <<speed[0], speed[1], speed[2], speed[3]>>)
      [] OTHER -> m

\* a variant that drives whatever the mode is
servos_drive_call_any_mode(m, e, msg, junk) ==
    LET speed == drive_speeds(m._active_drive.mode, msg, junk)
    IN  servos_drive_loop(report_speeds(m, speed), e, speed, 0)

servos_drive_call(m, e, msg, junk) ==
    IF m._active_drive.mode = MODE_UNDEFINED THEN ROS_ERROR(m, "drive mode not set", <<>>)
    ELSE IF m._active_drive.mode < MODE_UNDEFINED \/ m._active_drive.mode >= MODE_INVALID
         THEN ROS_ERROR(m, "unrecognized drive mode set", <<m._active_drive.mode>>)
    ELSE LET speed == drive_speeds(m._active_drive.mode, msg, junk)
         IN  servos_drive_loop(report_speeds(m, speed), e, speed, 0)

(***************************************************************************)
(* Inputs of the callbacks.                                                *)
(***************************************************************************)
BoardValues == 0..(MaxBoard + 1)
FrequencyValues == {MinFrequency - 1, 60, MaxFrequency + 1}
ServoValues == [servo : {1, MaxServo + 1}, value : {300, MaxPulse + 1}]
ServoArrays == UNION {[1..n -> ServoValues] : n \in 1..MaxMsgLen}

\* calibrations: one the checks accept as they should, one whose span leaves
\* 0..4096, one with a negative range and one with a direction that is no sign
CalibrationSamples ==
    {[center |-> 336, range |-> 96, direction |-> 1],
     [center |-> 4000, range |-> 200, direction |-> 1],
     [center |-> 2000, range |-> -100, direction |-> 1],
     [center |-> 336, range |-> 96, direction |-> -100]}

\* entries of a ServosConfig request
ServoConfigValues ==
    {[servo |-> s, center |-> t.center, range |-> t.range, direction |-> t.direction] :
        s \in {1, 2}, t \in CalibrationSamples}
    \cup {[servo |-> s, center |-> 336, range |-> 96, direction |-> 1] : s \in {0, MaxServo + 1}}
    \cup {[servo |-> 1, center |-> MaxPulse + 1, range |-> 0, direction |-> 1]}

ServoConfigArrays(values, n) == UNION {[1..i -> values] : i \in 1..n}

\* entries of the ServoArray messages of servos_proportional
ProportionalValues ==
    [servo : {1, 2, MaxServo + 1},
     value : {-MaxProportion - 1, -MaxProportion, 0, MaxProportion, MaxProportion + 1}]

ProportionalArrays(values) == UNION {[1..n -> values] : n \in 1..MaxMsgLen}

\* entries of the ServoArray messages of servos_absolute, both ends of each range
AbsoluteValues ==
    [servo : {0, 1, MaxServo, MaxServo + 1}, value : {-1, 0, 300, MaxPulse, MaxPulse + 1}]

AbsoluteArrays == UNION {[1..n -> AbsoluteValues] : n \in 1..MaxMsgLen}

\* the one-element sequences over a set
Single(values) == {<<v>> : v \in values}

\* DriveMode requests: the three modes and a name that is none of them, a
\* negative, a zero and a positive scale
DriveModeNames == {"ackerman", "differential", "mecanum", "tank"}
DriveScales == {-1, 0, 2}

\* entries of req.servos: every position of the enum and its two neighbours
PositionValues ==
    [servo : {1, 2}, value : (POSITION_UNDEFINED - 1)..POSITION_INVALID]
    \cup {[servo |-> MaxServo + 1, value |-> POSITION_LEFTFRONT]}

PositionArrays == UNION {[1..n -> PositionValues] : n \in 0..MaxMsgLen}

DriveModeRequests(names, scales, arrays) == [mode : names, scale : scales, servos : arrays]

\* requests that put one of channels 1 and 2 at a position the service takes
DriveAssignments ==
    DriveModeRequests(DriveModeNames \ {"tank"}, {1},
        Single([servo : {1, 2}, value : POSITION_UNDEFINED..POSITION_LEFTREAR]))

\* single calibrations of channels 1 and 2
DriveCalibrations ==
    Single({sc \in ServoConfigValues :
               sc.servo = 2 => sc.range >= 0 /\ sc.direction = 1})

\* Twist messages, in thousandths: -1.0, 0.0 and 1.0
TwistValues ==
    [linear : [x : {-1000, 0, 1000}, y : {-1000, 1000}],
     angular : [z : {-1000, 0, 1000}]]

\* what the uninitialized elements of speed[] may hold
JunkValues == {-1000, 5000}

\* single calibrations of channel 1 for the proportional pulse: both signs of
\* direction, an odd range that fills 0..4096, a negative range and a
\* direction that is no sign
ProportionalCalibrations ==
    Single({[servo |-> 1, center |-> 336, range |-> 96, direction |-> 1],
            [servo |-> 1, center |-> 336, range |-> 96, direction |-> -1],
            [servo |-> 1, center |-> 2048, range |-> 4095, direction |-> -1],
            [servo |-> 1, center |-> 2000, range |-> -100, direction |-> 1],
            [servo |-> 1, center |-> 336, range |-> 96, direction |-> -100]})

\* every proportion value and the two next to the range, for channel 1
ProportionalRange ==
    Single([servo : {1}, value : (-MaxProportion - 1)..(MaxProportion + 1)])

\* the ackerman mode alone, no channel positioned
AckermanRequest ==
    DriveModeRequests({"ackerman"}, {1}, {<<>>})

\* Twist messages whose linear x is each whole number of 0..1000
EasingTwists ==
    [linear : [x : {1000 * v : v \in 0..MaxProportion}, y : {0}], angular : [z : {0}]]

\* the calibration center 300, range 200, direction 1 of channel 1 or 2
WheelCalibrations ==
    Single({[servo |-> s, center |-> 300, range |-> 200, direction |-> 1] : s \in {1, 2}})

\* requests that put channel 1 or 2 at leftFront or rightFront, in the two
\* modes that compute a speed for leftFront
WheelAssignments ==
    DriveModeRequests({"ackerman", "differential"}, {1},
        Single([servo : {1, 2}, value : {POSITION_LEFTFRONT, POSITION_RIGHTFRONT}]))

\* full speed ahead: linear x 1000.0, nothing else
AheadTwist ==
    [linear : [x : {1000 * MaxProportion}, y : {0}], angular : [z : {0}]]

\* the environments of a callback that issues n transactions when none fails
Envs(n, k) == [fail : SubsetsUpTo(1..n, k), mode : ModeVals]

Pre ==
    [_active_board |-> _active_board, _pwm_boards |-> _pwm_boards,
     _pwm_frequency |-> _pwm_frequency, bus_slave |-> bus_slave,
     _servo_configs |-> _servo_configs, _active_drive |-> _active_drive]

\* a callback has run to its end: its effects and its transcript
Commit(name, arg, m) ==
    /\ pc' = "done"
    /\ _active_board' = m._active_board
    /\ _pwm_boards' = m._pwm_boards
    /\ _pwm_frequency' = m._pwm_frequency
    /\ bus_slave' = m.bus_slave
    /\ hw_prescale' = m.hw_prescale
    /\ wake_count' = m.wake_count
    /\ _servo_configs' = m._servo_configs
    /\ _active_drive' = m._active_drive
    /\ log' = m.log
    /\ rosout' = m.rosout
    /\ lastOp' = [name |-> name, arg |-> arg, pre |-> Pre]

(***************************************************************************)
(* Init is the state _init leaves; k bounds the failures of one callback.  *)
(* The loops of _init run j up to 63 over arrays of 62 boards, so they     *)
(* store -1 and 1 past the end of _servo_configs and _pwm_boards.  Of the  *)
(* globals modelled here, _init and main assign _active_board, the marks   *)
(* of boards 1..62, _active_drive and the bus handle after those stores,   *)
(* and the channels of boards 1..62 hold what the loop gave them;          *)
(* _pwm_frequency is the one that may be left holding a stray store until  *)
(* main sets it.                                                           *)
(***************************************************************************)
Init ==
    /\ pc = "boot"
    /\ _active_board = -1
    /\ _pwm_boards = [b \in Boards |-> -1]
    /\ _pwm_frequency \in {DefaultFrequency, -1, 1}
    /\ bus_slave = 0
    /\ hw_prescale = [b \in Boards |-> 0]
    /\ wake_count = [b \in Boards |-> 0]
    /\ _servo_configs = [b \in Boards |-> [s \in Servos |-> Unconfigured]]
    /\ _active_drive = [mode |-> MODE_UNDEFINED, scale |-> 1]
    /\ log = <<>>
    /\ rosout = <<>>
    /\ lastOp = [name |-> "none", arg |-> 0, pre |-> Pre]

main(k) ==
    /\ pc = "boot"
    /\ \E e \in Envs(Len(main_call(Cur, NoFail).log), k) :
          Commit("main", 0, main_call(Cur, e))

set_pwm_active_board(k) ==
    /\ pc = "spin"
    /\ \E value \in BoardValues :
          \E e \in Envs(Len(set_pwm_active_board_call(Cur, NoFail, value).log), k) :
             Commit("set_pwm_active_board", value, set_pwm_active_board_call(Cur, e, value))

set_pwm_frequency(k, values) ==
    /\ pc = "spin"
    /\ \E value \in values :
          \E e \in Envs(Len(set_pwm_frequency_call(Cur, NoFail, value).log), k) :
             Commit("set_pwm_frequency", value, set_pwm_frequency_call(Cur, e, value))

stop_servos(k) ==
    /\ pc = "spin"
    /\ \E e \in Envs(Len(stop_servos_call(Cur, NoFail).log), k) :
          Commit("stop_servos", 0, stop_servos_call(Cur, e))

servos_absolute(k, arrays) ==
    /\ pc = "spin"
    /\ \E servos \in arrays :
          \E e \in Envs(Len(servos_absolute_call(Cur, NoFail, servos).log), k) :
             Commit("servos_absolute", servos, servos_absolute_call(Cur, e, servos))

\* the service has no bus transaction
config_servos(arrays) ==
    /\ pc = "spin"
    /\ \E servos \in arrays :
          Commit("config_servos", servos, config_servos_call(Cur, servos))

servos_proportional(k, arrays) ==
    /\ pc = "spin"
    /\ \E servos \in arrays :
          \E e \in Envs(Len(servos_proportional_call(Cur, NoFail, servos).log), k) :
             Commit("servos_proportional", servos, servos_proportional_call(Cur, e, servos))

\* the service has no bus transaction
config_drive_mode(requests) ==
    /\ pc = "spin"
    /\ \E req \in requests :
          Commit("config_drive_mode", req, config_drive_mode_call(Cur, req))

servos_drive(k, msgs) ==
    /\ pc = "spin"
    /\ \E msg \in msgs, junk \in [0..3 -> JunkValues] :
          \E e \in Envs(Len(servos_drive_call(Cur, NoFail, msg, junk).log), k) :
             Commit("servos_drive", [msg |-> msg, junk |-> junk],
                    servos_drive_call(Cur, e, msg, junk))

\* the callback returns to ros::spin(); its transcript is dropped
ros_spin ==
    /\ pc = "done"
    /\ pc' = "spin"
    /\ log' = <<>>
    /\ rosout' = <<>>
    /\ lastOp' = [name |-> "none", arg |-> 0, pre |-> Pre]
    /\ UNCHANGED <<_active_board, _pwm_boards, _pwm_frequency, bus_slave,
                   hw_prescale, wake_count, _servo_configs, _active_drive>>

Step(k) ==
    \/ main(k)
    \/ set_pwm_active_board(k)
    \/ set_pwm_frequency(k, FrequencyValues)
    \/ stop_servos(k)
    \/ servos_absolute(k, ServoArrays)
    \/ ros_spin

Next == Step(MaxFail)

Spec == Init /\ [][Next]_vars

\* the same controller on a bus where no transaction ever fails
NextReliable == Step(0)

SpecReliable == Init /\ [][NextReliable]_vars

\* set_pwm_frequency over the ends of its accepted range, the frequencies
\* around the largest prescale a byte holds, and the default
FrequencySamples ==
    {MinFrequency - 1, MinFrequency, 23, 24, DefaultFrequency, 60,
     MaxFrequency, MaxFrequency + 1}

NextFrequency ==
    \/ main(0)
    \/ set_pwm_frequency(0, FrequencySamples)
    \/ ros_spin

SpecFrequency == Init /\ [][NextFrequency]_vars

\* calibration requests and pulse messages on the board main selects
NextCalibration ==
    \/ main(0)
    \/ config_servos(ServoConfigArrays(ServoConfigValues, MaxCfgLen))
    \/ servos_proportional(MaxFail, ProportionalArrays(ProportionalValues))
    \/ servos_absolute(MaxFail, AbsoluteArrays)
    \/ ros_spin

SpecCalibration == Init /\ [][NextCalibration]_vars

\* drive mode requests alone
NextDriveMode ==
    \/ main(0)
    \/ config_drive_mode(DriveModeRequests(DriveModeNames, DriveScales, PositionArrays))
    \/ ros_spin

SpecDriveMode == Init /\ [][NextDriveMode]_vars

\* calibration, drive positions and the commands that move the channels, on
\* a bus where no transaction fails
NextDrive ==
    \/ main(0)
    \/ config_servos(DriveCalibrations)
    \/ config_drive_mode(DriveAssignments)
    \/ servos_drive(0, TwistValues)
    \/ servos_proportional(0, ProportionalArrays(ProportionalValues))
    \/ ros_spin

SpecDrive == Init /\ [][NextDrive]_vars

\* the proportional pulse of one channel over every proportion value
NextProportional ==
    \/ main(0)
    \/ config_servos(ProportionalCalibrations)
    \/ servos_proportional(0, ProportionalRange)
    \/ ros_spin

SpecProportional == Init /\ [][NextProportional]_vars

\* the smoothing of every magnitude of 0..1000, seen in the ackerman speed
NextEasing ==
    \/ main(0)
    \/ config_drive_mode(AckermanRequest)
    \/ servos_drive(0, EasingTwists)
    \/ ros_spin

SpecEasing == Init /\ [][NextEasing]_vars

\* drive commands with wheels configured on more than one board
NextBoards ==
    \/ main(0)
    \/ set_pwm_active_board(0)
    \/ config_servos(WheelCalibrations)
    \/ config_drive_mode(WheelAssignments)
    \/ servos_drive(0, AheadTwist)
    \/ ros_spin

SpecBoards == Init /\ [][NextBoards]_vars

\* drive commands with the wheels of the active board calibrated alike
NextWheels ==
    \/ main(0)
    \/ config_servos(WheelCalibrations)
    \/ config_drive_mode(WheelAssignments)
    \/ servos_drive(0, AheadTwist)
    \/ ros_spin

SpecWheels == Init /\ [][NextWheels]_vars

(***************************************************************************)
(* Reading the transcript of the callback that has just run.               *)
(***************************************************************************)
PulseRegs ==
    {CHANNEL_ON_L + 4 * c : c \in 0..(MaxServo - 1)} \cup
    {CHANNEL_ON_H + 4 * c : c \in 0..(MaxServo - 1)} \cup
    {CHANNEL_OFF_L + 4 * c : c \in 0..(MaxServo - 1)} \cup
    {CHANNEL_OFF_H + 4 * c : c \in 0..(MaxServo - 1)}

AllChannelRegs ==
    {ALL_CHANNELS_ON_L, ALL_CHANNELS_ON_H, ALL_CHANNELS_OFF_L, ALL_CHANNELS_OFF_H}

IsWrite(t) == t.op = "write"
IsIoctl(t) == t.op = "ioctl"

\* what a transaction asks of the bus, whatever its outcome
What(t) == <<t.op, t.reg, t.val>>

ValidBoard(value) == value >= 1 /\ value <= MaxBoard
ValidFrequency(value) == value >= MinFrequency /\ value <= MaxFrequency

Ran(name) == pc = "done" /\ lastOp.name = name

\* C1: every register write of a per-channel or all-channel pulse operation
\* reaches the slave address of the board that is active when it is issued,
\* 0x40 + (_active_board - 1).
C1_PulseWritesReachActiveBoard ==
    \A i \in 1..Len(log) :
        IsWrite(log[i]) /\ log[i].reg \in PulseRegs \cup AllChannelRegs
            => log[i].slave = Addr(log[i].board)

\* C2: every stop_servos call writes (0,0) to the all-channels registers of
\* every board that was marked initialized, each at that board's own address.
C2_StopReachesEveryInitializedBoard ==
    Ran("stop_servos") =>
        \A b \in Boards :
            lastOp.pre._pwm_boards[b] > 0 =>
                \A r \in AllChannelRegs :
                    \E i \in 1..Len(log) :
                        /\ What(log[i]) = <<"write", r, 0>>
                        /\ log[i].slave = Addr(b)

\* C3: stop_servos leaves _active_board at the value it had before the call,
\* also when the selection of a board inside the call fails.
C3_StopRestoresActiveBoard ==
    Ran("stop_servos") => _active_board = lastOp.pre._active_board

\* stop_servos has run, the addressing of one board failed inside it, another
\* board was addressed after that, and a board other than the restored one was
\* active in between
C3_Witness ==
    /\ Ran("stop_servos")
    /\ \E i \in 1..Len(log) :
          /\ IsIoctl(log[i]) /\ ~log[i].ok
          /\ \E j \in (i + 1)..Len(log) : IsIoctl(log[j]) /\ log[j].ok
    /\ \E i \in 1..Len(log) : log[i].board # lastOp.pre._active_board
    /\ _active_board = lastOp.pre._active_board

\* the ten steps of the wake sequence, v being the byte the MODE1 read returned
WakeSteps(v) ==
    << <<"write", MODE2, OUTDRV>>,
       <<"write", MODE1, ALLCALL>>,
       <<"wait", 0, 5>>,
       <<"read", MODE1, v>>,
       <<"write", MODE1, BitClear(v, SLEEP)>>,
       <<"wait", 0, 5>>,
       <<"write", ALL_CHANNELS_ON_L, 0>>,
       <<"write", ALL_CHANNELS_ON_H, 0>>,
       <<"write", ALL_CHANNELS_OFF_L, 0>>,
       <<"write", ALL_CHANNELS_OFF_H, 0>> >>

\* the wake sequence follows position i of the transcript, addressed to board b
WakeFollows(i, b) ==
    /\ Len(log) >= i + 10
    /\ \A n \in 1..10 :
          /\ What(log[i + n]) = WakeSteps(log[i + 4].val)[n]
          /\ log[i + n].slave = Addr(b)

\* C4: for each board the wake sequence runs at most once, when the board is
\* addressed for the first time, as: MODE2 write, ALLCALL write, wait, MODE1
\* written with the sleep bit cleared, wait, all channels (0,0); addressing a
\* board that is already marked never runs any of it again.
C4_WakeOnceInOrder ==
    /\ \A b \in Boards :
          /\ wake_count[b] <= 1
          /\ wake_count[b] = 1 <=> _pwm_boards[b] = 1
    /\ \A i \in 1..Len(log) :
          IsIoctl(log[i]) /\ log[i].ok =>
             LET b == BoardAt(log[i].val)
             IN  IF lastOp.pre._pwm_boards[b] < 0
                 THEN WakeFollows(i, b)
                 ELSE i = Len(log) \/ What(log[i + 1]) # WakeSteps(0)[1]
    /\ \A i \in 1..Len(log) :
          What(log[i]) = WakeSteps(0)[1] =>
             /\ i > 1
             /\ IsIoctl(log[i - 1]) /\ log[i - 1].ok
             /\ lastOp.pre._pwm_boards[BoardAt(log[i - 1].val)] < 0

\* a board that was woken earlier has just been addressed again, and it has
\* still been woken once
C4_Witness ==
    /\ Ran("set_pwm_active_board")
    /\ ValidBoard(lastOp.arg)
    /\ lastOp.pre._pwm_boards[lastOp.arg] = 1
    /\ lastOp.pre._active_board # lastOp.arg
    /\ IsIoctl(log[1]) /\ log[1].ok /\ log[1].val = Addr(lastOp.arg)
    /\ wake_count[lastOp.arg] = 1

\* C5: set_pwm_active_board with a board number outside 1..62 changes neither
\* the active board, nor the initialized boards, nor the slave bound on the bus.
C5_InvalidBoardRejected ==
    Ran("set_pwm_active_board") /\ ~ValidBoard(lastOp.arg) =>
        /\ _active_board = lastOp.pre._active_board
        /\ _pwm_boards = lastOp.pre._pwm_boards
        /\ bus_slave = lastOp.pre.bus_slave

\* C6: when the I2C_SLAVE ioctl fails in set_pwm_active_board(id), id does not
\* become the active board, the board is not marked initialized and no step
\* of the wake sequence is issued.
C6_FailedAddressingLeavesActiveBoard ==
    Ran("set_pwm_active_board") /\ ValidBoard(lastOp.arg)
      /\ (\E i \in 1..Len(log) : IsIoctl(log[i]) /\ ~log[i].ok) =>
        /\ _active_board = lastOp.pre._active_board
        /\ _pwm_boards = lastOp.pre._pwm_boards
        /\ \A i \in 1..Len(log) : What(log[i]) # WakeSteps(0)[1]

\* C7: set_pwm_active_board(id) with id the active board issues no I2C_SLAVE
\* ioctl, runs no step of the wake sequence and leaves the active board, the
\* initialized boards and the bound slave as they were.
C7_SelectActiveBoardIsNoOp ==
    Ran("set_pwm_active_board") /\ ValidBoard(lastOp.arg)
      /\ lastOp.arg = lastOp.pre._active_board =>
        /\ \A i \in 1..Len(log) :
              /\ ~IsIoctl(log[i])
              /\ What(log[i]) # WakeSteps(0)[1]
              /\ ~(IsWrite(log[i]) /\ log[i].reg \in AllChannelRegs)
        /\ _active_board = lastOp.pre._active_board
        /\ _pwm_boards = lastOp.pre._pwm_boards
        /\ bus_slave = lastOp.pre.bus_slave

\* the active board has just been selected again; the callback still ran (it
\* reprogrammed the frequency)
C7_Witness ==
    /\ Ran("set_pwm_active_board")
    /\ ValidBoard(lastOp.arg)
    /\ lastOp.arg = lastOp.pre._active_board
    /\ log # <<>>

\* C8: set_pwm_frequency with a frequency outside 12..1024 writes no register
\* and leaves _pwm_frequency as it was.
C8_InvalidFrequencyRejected ==
    Ran("set_pwm_frequency") /\ ~ValidFrequency(lastOp.arg) =>
        /\ \A i \in 1..Len(log) : ~IsWrite(log[i])
        /\ _pwm_frequency = lastOp.pre._pwm_frequency

\* C9: set_pwm_frequency with a valid frequency issues, after its settling
\* wait: read MODE1, write MODE1 with the sleep bit set, write PRESCALE, write
\* the MODE1 byte it read, wait, write MODE1 with the restart bit set; all of
\* them whatever fails, and the frequency is stored.
C9_FrequencySequence ==
    Ran("set_pwm_frequency") /\ ValidFrequency(lastOp.arg) =>
        /\ Len(log) = 7
        /\ What(log[1]) = <<"wait", 0, 1000>>
        /\ log[2].op = "read" /\ log[2].reg = MODE1
        /\ What(log[3]) = <<"write", MODE1, BitSet(log[2].val % 128, SLEEP)>>
        /\ HasBit(log[3].val, SLEEP)
        /\ IsWrite(log[4]) /\ log[4].reg = PRESCALE
        /\ What(log[5]) = <<"write", MODE1, log[2].val>>
        /\ What(log[6]) = <<"wait", 0, 5>>
        /\ What(log[7]) = <<"write", MODE1, BitSet(log[2].val, RESTART)>>
        /\ _pwm_frequency = lastOp.arg

\* a valid frequency, other than the one in force, has just been set while a
\* register write failed
C9_Witness ==
    /\ Ran("set_pwm_frequency")
    /\ ValidFrequency(lastOp.arg)
    /\ lastOp.arg # lastOp.pre._pwm_frequency
    /\ \E i \in 1..Len(log) : IsWrite(log[i]) /\ ~log[i].ok
    /\ _pwm_frequency = lastOp.arg

\* C10: once set_pwm_frequency has run with a valid frequency, the PRESCALE
\* register of every initialized board holds the prescale of that frequency.
C10_FrequencyOnEveryBoard ==
    Ran("set_pwm_frequency") /\ ValidFrequency(lastOp.arg) =>
        \A b \in Boards :
            _pwm_boards[b] > 0 => hw_prescale[b] = Prescale(lastOp.arg) % 256


\* round (25000000 / 4096 / hz - 1): the integer n nearest to that quotient,
\* |25000000 / (4096 hz) - 1 - n| <= 1/2 with the half rounded up
RoundedPrescale(hz) ==
    CHOOSE n \in 0..1024 :
        /\ (2 * n - 1) * 4096 * hz <= 2 * (25000000 - 4096 * hz)
        /\ 2 * (25000000 - 4096 * hz) < (2 * n + 1) * 4096 * hz

\* C11: for every frequency hz of 12..1024 handed to set_pwm_frequency, the
\* value written to the prescale register is round (25000000 / 4096 / hz - 1);
\* it is 121 for 50 Hz.
C11_PrescaleIsRounded ==
    Ran("set_pwm_frequency") /\ ValidFrequency(lastOp.arg) =>
        /\ \E i \in 1..Len(log) : IsWrite(log[i]) /\ log[i].reg = PRESCALE
        /\ \A i \in 1..Len(log) :
              IsWrite(log[i]) /\ log[i].reg = PRESCALE =>
                 /\ log[i].val = RoundedPrescale(lastOp.arg)
                 /\ lastOp.arg = 50 => log[i].val = 121

\* the channel configurations a callback started from, and whether config_servos
\* has changed the calibration of a channel since
Stored(b, s) == _servo_configs[b][s]
Before(b, s) == lastOp.pre._servo_configs[b][s]
NeverCalibrated(c) == c.center = Unconfigured.center /\ c.range = Unconfigured.range

\* C12: every channel configuration stored by config_servos has its center
\* and its range within 0..4096 and its span center -/+ range/2 within 0..4096.
C12_StoredCalibrationInRange ==
    \A b \in Boards, s \in Servos :
        LET c == Stored(b, s)
        IN  NeverCalibrated(c) \/
            /\ 0 <= c.center /\ c.center <= 4096
            /\ 0 <= c.range /\ c.range <= 4096
            /\ c.center - (c.range \div 2) >= 0
            /\ c.center + (c.range \div 2) <= 4096

\* C13: in every reachable state the direction of every channel is +1 or -1.
C13_DirectionIsSign ==
    \A b \in Boards, s \in Servos : Stored(b, s).direction \in {1, -1}

\* the entries of the request that config_servos took for channel s
Taken(s) ==
    {i \in 1..Len(lastOp.arg) :
        lastOp.arg[i].servo = s /\ ~servo_config_rejected(lastOp.arg[i])}

LastOf(idx) == CHOOSE i \in idx : \A j \in idx : j <= i

\* C14: after a calibration request, a channel none of whose entries passed
\* the checks is as it was, rejected entries before, between or after the
\* others notwithstanding, and a channel with entries that passed holds the
\* calibration of the last of them.
C14_RejectedEntryDoesNotStopBatch ==
    Ran("config_servos") =>
        \A s \in Servos :
            LET c == Stored(lastOp.pre._active_board, s)
            IN  IF Taken(s) = {}
                THEN c = Before(lastOp.pre._active_board, s)
                ELSE LET sc == lastOp.arg[LastOf(Taken(s))]
                     IN  /\ c.center = sc.center
                         /\ c.range = sc.range
                         /\ c.direction = sc.direction

\* a request of a good entry for channel 1, a rejected one, and a good entry
\* for channel 2, on two channels that were never calibrated
C14_Witness ==
    /\ Ran("config_servos")
    /\ Len(lastOp.arg) = 3
    /\ lastOp.arg[1].servo = 1 /\ ~servo_config_rejected(lastOp.arg[1])
    /\ lastOp.arg[2].servo = 1 /\ servo_config_rejected(lastOp.arg[2])
    /\ lastOp.arg[3].servo = 2 /\ ~servo_config_rejected(lastOp.arg[3])
    /\ NeverCalibrated(Before(_active_board, 1))
    /\ NeverCalibrated(Before(_active_board, 2))
    /\ Stored(_active_board, 1).center = lastOp.arg[1].center
    /\ Stored(_active_board, 2).center = lastOp.arg[3].center

\* the channel a pulse register belongs to
ChannelOf(reg) == ((reg - CHANNEL_ON_L) \div 4) + 1

DrivePositions ==
    {POSITION_LEFTFRONT, POSITION_RIGHTFRONT, POSITION_LEFTREAR, POSITION_RIGHTREAR}

\* C15: a calibration that config_servos takes overwrites center, range and
\* direction of its channel and puts its drive position back to none, every
\* other channel of every board stays as it was, and a drive command writes
\* no pulse to a channel whose position is none.
C15_CalibrationResetsDrivePosition ==
    /\ Ran("config_servos") =>
          \A b \in Boards, s \in Servos :
              IF b = lastOp.pre._active_board /\ Taken(s) # {}
              THEN LET sc == lastOp.arg[LastOf(Taken(s))]
                   IN  Stored(b, s) =
                          [center |-> sc.center, range |-> sc.range,
                           direction |-> sc.direction, mode_pos |-> POSITION_UNDEFINED]
              ELSE Stored(b, s) = Before(b, s)
    /\ Ran("servos_drive") =>
          \A i \in 1..Len(log) :
              IsWrite(log[i]) /\ log[i].reg \in PulseRegs =>
                 Stored(_active_board, ChannelOf(log[i].reg)).mode_pos \in DrivePositions

\* channel 1 is calibrated again while it has a drive position, and channel 2
\* keeps the drive position it has
C15_Witness ==
    /\ Ran("config_servos")
    /\ Taken(1) # {}
    /\ Before(_active_board, 1).mode_pos \in DrivePositions
    /\ Before(_active_board, 1).center >= 0
    /\ Stored(_active_board, 1).mode_pos = POSITION_UNDEFINED
    /\ Stored(_active_board, 2).mode_pos \in DrivePositions

\* the entries of a drive mode request that name channel s and one of the
\* five positions none, leftFront, rightFront, leftRear, rightRear
Positioned(s) ==
    {i \in 1..Len(lastOp.arg.servos) :
        /\ lastOp.arg.servos[i].servo = s
        /\ lastOp.arg.servos[i].value \in {POSITION_UNDEFINED} \cup DrivePositions}

DriveRequestTaken ==
    /\ lastOp.arg.mode \in {"ackerman", "differential", "mecanum"}
    /\ lastOp.arg.scale > 0

\* C16: a drive mode request stores, for every channel 1..16 it names with one
\* of the five positions, the last such position; a channel it names with no
\* such position is as it was.
C16_EveryPositionAssignable ==
    Ran("config_drive_mode") /\ DriveRequestTaken =>
        \A s \in Servos :
            IF Positioned(s) # {}
            THEN Stored(_active_board, s).mode_pos =
                    lastOp.arg.servos[LastOf(Positioned(s))].value
            ELSE Stored(_active_board, s) = Before(_active_board, s)

\* direction * ((range / 2) * value / 1000) + center with truncating divisions,
\* for a range that is not negative: the magnitude is divided, the sign put back
OffTick(c, value) ==
    LET magnitude == (((c.range \div 2) * (IF value < 0 THEN -value ELSE value)) \div 1000)
    IN  c.direction * (IF value < 0 THEN -magnitude ELSE magnitude) + c.center

\* the four register writes of a pulse (on, off) on a channel
ExpectedPulse(channel, on, off) ==
    << <<"write", 6 + 4 * (channel - 1), on % 256>>,
       <<"write", 7 + 4 * (channel - 1), on \div 256>>,
       <<"write", 8 + 4 * (channel - 1), off % 256>>,
       <<"write", 9 + 4 * (channel - 1), off \div 256>> >>

Transcript == [i \in 1..Len(log) |-> What(log[i])]

\* what a proportional message writes on the channels of board b
RECURSIVE ExpectedProportional(_, _)
ExpectedProportional(b, servos) ==
    IF servos = <<>> THEN <<>>
    ELSE LET sp == Head(servos)
             writes == sp.servo \in Servos /\ sp.value \in -1000..1000
                       /\ Before(b, sp.servo).center >= 0
                       /\ Before(b, sp.servo).range >= 0
                       /\ OffTick(Before(b, sp.servo), sp.value) \in 0..4096
         IN  (IF writes
              THEN ExpectedPulse(sp.servo, 0, OffTick(Before(b, sp.servo), sp.value))
              ELSE <<>>)
             \o ExpectedProportional(b, Tail(servos))

\* C17: on a configured channel, a proportional command of a value in
\* -1000..1000 writes the pulse (0, direction * ((range / 2) * value / 1000) +
\* center), the divisions truncating; with center 336, range 96, direction 1
\* that is 336 for 0, 384 for 1000 and 288 for -1000.
C17_ProportionalOffTick ==
    Ran("servos_proportional") =>
        /\ Transcript = ExpectedProportional(_active_board, lastOp.arg)
        /\ \A x \in {<<0, 336>>, <<1000, 384>>, <<-1000, 288>>} :
              /\ lastOp.arg = <<[servo |-> 1, value |-> x[1]]>>
              /\ Before(_active_board, 1).center = 336
              /\ Before(_active_board, 1).range = 96
              /\ Before(_active_board, 1).direction = 1
              => Transcript = ExpectedPulse(1, 0, x[2])

\* -1 on a channel of center 2048, range 4095, direction -1: the quotient
\* -2047 / 1000 is truncated to -2, the off tick is 2050
C17_Witness ==
    /\ Ran("servos_proportional")
    /\ lastOp.arg = <<[servo |-> 1, value |-> -1]>>
    /\ Before(_active_board, 1).range = 4095
    /\ Before(_active_board, 1).direction = -1
    /\ Transcript = ExpectedPulse(1, 0, 2050)

\* the off tick of the pulse whose CHANNEL_OFF_L write is the i-th transaction
WrittenOff(i) == log[i].val + 256 * log[i + 1].val

\* C18: a proportional command, sent directly or produced by a drive command,
\* writes no register of a channel that is unconfigured (center < 0 or
\* range < 0) or whose computed position is below 0 or above 4096.
C18_NoWriteWhenUnconfiguredOrOutOfRange ==
    /\ Ran("servos_proportional") \/ Ran("servos_drive") =>
          \A i \in 1..Len(log) :
              IsWrite(log[i]) /\ log[i].reg \in PulseRegs =>
                 LET c == Stored(_active_board, ChannelOf(log[i].reg))
                 IN  /\ c.center >= 0 /\ c.range >= 0
                     /\ log[i].reg = CHANNEL_OFF_L + 4 * (ChannelOf(log[i].reg) - 1) =>
                           /\ WrittenOff(i) \in 0..4096
                           /\ \E value \in -1000..1000 : WrittenOff(i) = OffTick(c, value)
    /\ Ran("servos_proportional") =>
          \A s \in Servos :
              (\A k \in 1..Len(lastOp.arg) :
                  lastOp.arg[k].servo = s =>
                     \/ Stored(_active_board, s).center < 0
                     \/ Stored(_active_board, s).range < 0
                     \/ OffTick(Stored(_active_board, s), lastOp.arg[k].value) \notin 0..4096)
              => \A i \in 1..Len(log) : ChannelOf(log[i].reg) # s

\* an ackerman drive at full speed with channel 1, of direction -100, at
\* leftFront and channel 2, never calibrated, at rightFront: nothing is written
C18_Witness ==
    /\ Ran("servos_drive")
    /\ _active_drive.mode = MODE_ACKERMAN
    /\ lastOp.arg.msg.linear.x = 1000
    /\ lastOp.arg.junk[1] = -1000
    /\ Stored(_active_board, 1) =
          [center |-> 336, range |-> 96, direction |-> -100, mode_pos |-> POSITION_LEFTFRONT]
    /\ NeverCalibrated(Stored(_active_board, 2))
    /\ Stored(_active_board, 2).mode_pos = POSITION_RIGHTFRONT
    /\ log = <<>>

\* what an absolute message writes
RECURSIVE ExpectedAbsolute(_)
ExpectedAbsolute(servos) ==
    IF servos = <<>> THEN <<>>
    ELSE (IF Head(servos).servo \in 1..16 /\ Head(servos).value \in 0..4096
          THEN ExpectedPulse(Head(servos).servo, 0, Head(servos).value)
          ELSE <<>>)
         \o ExpectedAbsolute(Tail(servos))

\* C19: an absolute pulse on a channel 1..16 of a valid active board writes
\* exactly the registers 0x06, 0x07, 0x08, 0x09 offset by 4 * (channel - 1),
\* with the low and high bytes of on, then of off, on the active board; a
\* channel outside 1..16 or a tick outside 0..4096 writes nothing.
C19_AbsolutePulseWrites ==
    Ran("servos_absolute") =>
        /\ Transcript = ExpectedAbsolute(lastOp.arg)
        /\ \A i \in 1..Len(log) : log[i].board = _active_board

\* the last channel at the last tick: registers 66..69, bytes 0, 0, 0, 16
C19_Witness ==
    /\ Ran("servos_absolute")
    /\ Head(lastOp.arg) = [servo |-> 16, value |-> 4096]
    /\ Len(log) >= 4
    /\ <<log[1].reg, log[2].reg, log[3].reg, log[4].reg>> = <<66, 67, 68, 69>>
    /\ <<log[1].val, log[2].val, log[3].val, log[4].val>> = <<0, 0, 0, 16>>

\* C20: a drive mode request with an unrecognized mode name or with a scale
\* that is not positive leaves the stored mode and scale as they were.
C20_RejectedRequestKeepsDriveConfig ==
    Ran("config_drive_mode") /\ ~DriveRequestTaken =>
        _active_drive = lastOp.pre._active_drive

\* the reports of the callback that has just run
Errors == {i \in 1..Len(rosout) : rosout[i].level = "error"}
PulseWrites == {i \in 1..Len(log) : IsWrite(log[i]) /\ log[i].reg \in PulseRegs}

\* C21: a drive command received while the drive mode is undefined is
\* answered with the error "drive mode not set" alone, writes no register and
\* changes nothing.
C21_DriveNeedsMode ==
    Ran("servos_drive") /\ lastOp.pre._active_drive.mode = MODE_UNDEFINED =>
        /\ log = <<>>
        /\ rosout = <<[level |-> "error", what |-> "drive mode not set", args |-> <<>>]>>
        /\ _servo_configs = lastOp.pre._servo_configs
        /\ _active_drive = lastOp.pre._active_drive

\* a full-speed command before any mode is set, channel 1 being calibrated
C21_Witness ==
    /\ Ran("servos_drive")
    /\ _active_drive.mode = MODE_UNDEFINED
    /\ lastOp.arg.msg.linear.x = 1000
    /\ Stored(_active_board, 1).center >= 0
    /\ Errors = {1}
    /\ log = <<>>

\* the Twist message of the drive command that has just run, turning the
\* other way
Mirrored == [lastOp.arg.msg EXCEPT !.angular.z = -lastOp.arg.msg.angular.z]

\* C22: in differential mode, with an angular z that is not zero, the (left,
\* right) speeds of a drive command are the (right, left) speeds of the same
\* command turning the other way.
C22_DifferentialSwap ==
    /\ Ran("servos_drive")
    /\ _active_drive.mode = MODE_DIFFERENTIAL
    /\ lastOp.arg.msg.angular.z # 0
    => LET other == drive_speeds(MODE_DIFFERENTIAL, Mirrored, lastOp.arg.junk)
       IN  rosout[1].args = <<other[1], other[0]>>

\* C29: a drive command writes only to channels at a position its mode
\* computes: leftFront (the drive) in ackerman mode, leftFront and rightFront
\* (left and right) in differential mode.
C29_OnlyComputedPositionsWritten ==
    Ran("servos_drive") =>
        \A i \in PulseWrites :
            LET mode_pos == Stored(_active_board, ChannelOf(log[i].reg)).mode_pos
            IN  /\ _active_drive.mode = MODE_ACKERMAN => mode_pos = POSITION_LEFTFRONT
                /\ _active_drive.mode = MODE_DIFFERENTIAL =>
                      mode_pos \in {POSITION_LEFTFRONT, POSITION_RIGHTFRONT}

\* C23: in mecanum mode each of the four speeds handed on lies in -1000..1000:
\* a computed speed above 1000 becomes 1000, one below -1000 becomes -1000, and
\* one within -1000..1000 is handed on as it is.
C23_MecanumClamp ==
    Ran("servos_drive") /\ _active_drive.mode = MODE_MECANUM =>
        \A i \in 1..4 :
            LET computed == mecanum_speeds(lastOp.arg.msg)[i - 1]
                handed == rosout[1].args[i]
            IN  /\ handed \in -1000..1000
                /\ computed > 1000 => handed = 1000
                /\ computed < -1000 => handed = -1000
                /\ computed \in -1000..1000 => handed = computed

\* the channels of the active board that have a drive position, and the report
\* _set_pwm_interval_proportional made for each: the reports follow the one of
\* the speeds, in the order of the channels
Driven == {s \in Servos : Stored(_active_board, s).mode_pos \in DrivePositions}
ReportOf(s) == rosout[1 + Cardinality({t \in Driven : t <= s})]
HasValue(report) == report.what # "Missing servo configuration"
ValueOf(report) ==
    IF report.what = "Invalid proportion value" THEN report.args[1] ELSE report.args[2]

\* the mecanum speed of a position before clamping, as C24 gives it
MecanumOf(mode_pos, t) ==
    IF mode_pos \in {POSITION_LEFTFRONT, POSITION_RIGHTREAR}
    THEN t.temp_x * t.dir_x - t.temp_y * t.dir_y
    ELSE (t.temp_x - t.temp_r) * t.dir_x + t.temp_y * t.dir_y

\* C24: in mecanum mode the value a channel is commanded with is what _absmax
\* makes of the speed of its position, which is magX*dirX - magY*dirY for
\* leftFront and rightRear and (magX-magR)*dirX + magY*dirY for rightFront and
\* leftRear.
C24_MecanumSpeedByPosition ==
    Ran("servos_drive") /\ _active_drive.mode = MODE_MECANUM =>
        \A s \in Driven :
            HasValue(ReportOf(s)) =>
                ValueOf(ReportOf(s)) =
                    _absmax(MecanumOf(Stored(_active_board, s).mode_pos,
                                      twist_terms(lastOp.arg.msg)), 1000)

\* the magnitude v of linear x in the ackerman drive command that has just
\* run, and its smoothing: the speed reported is the smoothing times dir_x
Magnitude == double_to_int(lastOp.arg.msg.linear.x)
Eased == rosout[1].args[1] * (IF lastOp.arg.msg.linear.x > 0 THEN 1 ELSE -1)
AckermanRan == Ran("servos_drive") /\ _active_drive.mode = MODE_ACKERMAN

\* C25: the easing of 0 is 0, of 1000 is 1000 and of 500 is 500.
C25_EasingValues ==
    AckermanRan =>
        /\ Magnitude = 0 => Eased = 0
        /\ Magnitude = 1000 => Eased = 1000
        /\ Magnitude = 500 => Eased = 500

\* C26: over the integers 0..1000 the easing stays within 0..1000 and never
\* decreases: the easing of v is at least that of every smaller magnitude.
C26_EasingMonotonic ==
    AckermanRan /\ Magnitude \in 0..1000 =>
        /\ Eased \in 0..1000
        /\ Eased = _smoothing(Magnitude)
        /\ \A w \in 0..Magnitude : _smoothing(w) <= Eased

\* the easing of 1 is already 1000
C26_Witness ==
    /\ AckermanRan
    /\ Magnitude = 1
    /\ Eased = 1000

\* C30: for every frequency of 12..1024 handed to set_pwm_frequency the
\* prescale computed fits the 8-bit register, so the byte written to the
\* prescale register is the prescale computed.
C30_PrescaleFitsByte ==
    Ran("set_pwm_frequency") /\ ValidFrequency(lastOp.arg) =>
        /\ Prescale(lastOp.arg) \in 0..255
        /\ \A i \in 1..Len(log) :
              IsWrite(log[i]) /\ log[i].reg = PRESCALE =>
                 log[i].val = Prescale(lastOp.arg)

\* the positions a mode computes a speed for, and the speed of leftFront and
\* of rightFront in the drive command that has just run
ComputedPositions(mode) ==
    IF mode = MODE_ACKERMAN THEN {POSITION_LEFTFRONT}
    ELSE IF mode = MODE_DIFFERENTIAL THEN {POSITION_LEFTFRONT, POSITION_RIGHTFRONT}
    ELSE DrivePositions
SpeedAt(mode_pos) ==
    drive_speeds(_active_drive.mode, lastOp.arg.msg, lastOp.arg.junk)
        [IF mode_pos = POSITION_LEFTFRONT THEN 0 ELSE 1]

\* a pulse with off tick off written to channel s at the slave address of board b
PulseAt(b, s, off) ==
    \E i \in PulseWrites :
        /\ log[i].slave = Addr(b)
        /\ log[i].reg = CHANNEL_OFF_L + 4 * (s - 1)
        /\ WrittenOff(i) = off

\* C27: a drive command in ackerman or differential mode writes, on every
\* board that has been initialized and not only on the active one, a pulse to
\* every calibrated channel whose position is one the mode computes, the off
\* tick being the speed of the position converted with the channel's
\* calibration.
C27_DriveReachesEveryBoard ==
    Ran("servos_drive") /\ _active_drive.mode \in {MODE_ACKERMAN, MODE_DIFFERENTIAL} =>
        \A b \in Boards, s \in Servos :
            /\ _pwm_boards[b] > 0
            /\ Stored(b, s).mode_pos \in ComputedPositions(_active_drive.mode)
            /\ Stored(b, s).center >= 0 /\ Stored(b, s).range >= 0
            => PulseAt(b, s, OffTick(Stored(b, s), SpeedAt(Stored(b, s).mode_pos)))

\* the calibration of C28 and the channels of the active board that have it
\* and are the left or the right wheel
WheelCalibration == [center |-> 300, range |-> 200, direction |-> 1]
Wheels(mode_pos) ==
    {s \in Servos :
        Stored(_active_board, s) =
            [center |-> WheelCalibration.center, range |-> WheelCalibration.range,
             direction |-> WheelCalibration.direction, mode_pos |-> mode_pos]}

\* C28: in differential mode, with a channel at left (leftFront) and one at
\* right (rightFront) both calibrated center 300, range 200, direction 1, the
\* command linear x 1000, linear y 0, angular z 0 writes to both the pulse
\* whose off tick is the proportional conversion of the easing of 1000.
C28_StraightAheadDrivesBothAlike ==
    /\ Ran("servos_drive")
    /\ _active_drive.mode = MODE_DIFFERENTIAL
    /\ lastOp.arg.msg =
          [linear |-> [x |-> 1000 * 1000, y |-> 0], angular |-> [z |-> 0]]
    /\ Wheels(POSITION_LEFTFRONT) # {}
    /\ Wheels(POSITION_RIGHTFRONT) # {}
    => \A s \in Wheels(POSITION_LEFTFRONT) \cup Wheels(POSITION_RIGHTFRONT) :
          /\ PulseAt(_active_board, s, OffTick(WheelCalibration, _smoothing(1000)))
          /\ \A i \in PulseWrites :
                log[i].reg = CHANNEL_OFF_L + 4 * (s - 1) =>
                   WrittenOff(i) = OffTick(WheelCalibration, _smoothing(1000))

\* channel 1 is the left wheel, channel 2 the right one, both get tick 400
C28_Witness ==
    /\ Ran("servos_drive")
    /\ _active_drive.mode = MODE_DIFFERENTIAL
    /\ lastOp.arg.msg.linear.x = 1000 * 1000
    /\ Wheels(POSITION_LEFTFRONT) = {1}
    /\ Wheels(POSITION_RIGHTFRONT) = {2}
    /\ PulseAt(_active_board, 1, 400)
    /\ PulseAt(_active_board, 2, 400)

\* the reports of a proportional command about what it computed for a channel
\* of 1..16: args are <<servo, value, pos>>
Computed ==
    {i \in 1..Len(rosout) :
        rosout[i].what \in {"Invalid computed position", "servo[] ="}}

\* C31: a proportional command with a value of -1000..1000 to a channel whose
\* calibration config_servos has stored computes a pulse between
\* center - range/2 and center + range/2, which is within 0..4096, and so
\* never reports an invalid computed position.
C31_AcceptedCalibrationNeverOutOfRange ==
    Ran("servos_proportional") =>
        \A i \in Computed :
            LET c == Stored(_active_board, rosout[i].args[1])
                pos == rosout[i].args[3]
            IN  /\ rosout[i].what # "Invalid computed position"
                /\ pos >= c.center - (c.range \div 2)
                /\ pos <= c.center + (c.range \div 2)
                /\ pos \in 0..4096

\* the reports _set_pwm_interval_proportional makes once it has taken configp,
\* the entry of the channel configurations of its servo: args[1] is the servo
LookedUp ==
    {i \in 1..Len(rosout) :
        rosout[i].what \in {"stray", "Missing servo configuration",
                            "Invalid computed position", "servo[] ="}}

\* C32: a proportional command that names a channel outside 1..16 is refused
\* with "Invalid servo number" before the channel configurations are looked
\* up, so that no entry outside channels 1..16 is ever taken, and it writes no
\* register.
C32_ChannelCheckedBeforeLookup ==
    Ran("servos_proportional") =>
        /\ \A i \in LookedUp : rosout[i].args[1] \in Servos
        /\ \A j \in 1..Len(lastOp.arg) :
              /\ lastOp.arg[j].servo \notin Servos
              /\ lastOp.arg[j].value \in -MaxProportion..MaxProportion
              => \E i \in Errors :
                    /\ rosout[i].what = "Invalid servo number"
                    /\ rosout[i].args = <<lastOp.arg[j].servo>>
        /\ (\A j \in 1..Len(lastOp.arg) : lastOp.arg[j].servo \notin Servos) => log = <<>>
====
